---- MODULE Spec2Model ----
(***************************************************************************)
(* The lox scanner of src/scanner.rs as a state machine.                   *)
(*                                                                         *)
(* A source text is a sequence of characters; a character is a string of   *)
(* one entry.  The scanner reads characters by CHARACTER index             *)
(* (src.chars().nth(current)), tests the end of input against the BYTE     *)
(* length (src.len()) and cuts lexemes by BYTE offsets                     *)
(* (src[start..current]); the model keeps the three apart.                 *)
(***************************************************************************)
EXTENDS Integers, Sequences, FiniteSets, TLC

\* ------------------------------------------------------------- bounds
\* The longest source over the whole alphabet.
MaxLen == 3
\* The longest source over the characters of one construct.
MaxFocusLen == 5
\* The largest ordinal rustize is asked for.
MaxOrdinal == 64

\* --------------------------------------------------------- characters
\* '\0', what peek() answers past the last character.
NUL == "NUL"
\* A character whose UTF-8 encoding has two bytes.
Multi == "U+00E9"

\* Every character the inputs are drawn from.
Alphabet == {"\"", "/", "*", "\n", "1", ".", "o", "=", " ", "@", Multi}
\* The characters of comments, of string literals, of numbers and of words.
CommentChars == {"/", "*", "\n", "="}
StringChars == {"\"", "o", "\n", Multi}
NumberChars == {"1", ".", " ", Multi}
WordChars == {"o", "r", "1", "="}
\* The characters of line comments and of white space.
LineChars == {"/", "\n", "=", Multi}
WhiteChars == {" ", "\r", "\t", "1"}
\* The characters of the one or two character operators.
OperatorChars == {"!", "=", "<", ">"}

SeqsUpTo(S, n) == UNION {[1..k -> S] : k \in 0..n}

Sources ==
  SeqsUpTo(Alphabet, MaxLen) \cup SeqsUpTo(CommentChars, MaxFocusLen)
    \cup SeqsUpTo(StringChars, MaxFocusLen)
    \cup SeqsUpTo(NumberChars, MaxFocusLen)
    \cup SeqsUpTo(WordChars, MaxFocusLen)
    \cup SeqsUpTo(LineChars, MaxFocusLen)
    \cup SeqsUpTo(WhiteChars, MaxFocusLen)
    \cup SeqsUpTo(OperatorChars, MaxFocusLen)

LowerCase ==
  <<"a", "b", "c", "d", "e", "f", "g", "h", "i", "j", "k", "l", "m",
    "n", "o", "p", "q", "r", "s", "t", "u", "v", "w", "x", "y", "z">>
UpperCase ==
  <<"A", "B", "C", "D", "E", "F", "G", "H", "I", "J", "K", "L", "M",
    "N", "O", "P", "Q", "R", "S", "T", "U", "V", "W", "X", "Y", "Z">>
Digits == <<"0", "1", "2", "3", "4", "5", "6", "7", "8", "9">>

\* The scalar value of a character, as Rust's char comparison sees it.
CodePoint(c) ==
  IF \E i \in 1..26 : LowerCase[i] = c
    THEN 96 + (CHOOSE i \in 1..26 : LowerCase[i] = c)
  ELSE IF \E i \in 1..26 : UpperCase[i] = c
    THEN 64 + (CHOOSE i \in 1..26 : UpperCase[i] = c)
  ELSE IF \E i \in 1..10 : Digits[i] = c
    THEN 47 + (CHOOSE i \in 1..10 : Digits[i] = c)
  ELSE CASE c = NUL -> 0
         [] c = "\t" -> 9
         [] c = "\n" -> 10
         [] c = "\r" -> 13
         [] c = " " -> 32
         [] c = "!" -> 33
         [] c = "\"" -> 34
         [] c = "%" -> 37
         [] c = "(" -> 40
         [] c = ")" -> 41
         [] c = "*" -> 42
         [] c = "+" -> 43
         [] c = "," -> 44
         [] c = "-" -> 45
         [] c = "." -> 46
         [] c = "/" -> 47
         [] c = ";" -> 59
         [] c = "<" -> 60
         [] c = "=" -> 61
         [] c = ">" -> 62
         [] c = "@" -> 64
         [] c = "_" -> 95
         [] c = "{" -> 123
         [] c = "}" -> 125
         [] c = Multi -> 233

\* The number of bytes of a character in the String (UTF-8).
len_utf8(c) == IF CodePoint(c) < 128 THEN 1 ELSE 2

\* ------------------------------------------------ the source as a String
RECURSIVE ByteOffset(_, _)
\* The byte offset at which the character with index i (from 0) starts.
ByteOffset(s, i) == IF i = 0 THEN 0 ELSE ByteOffset(s, i - 1) + len_utf8(s[i])

\* src.len(): the length in bytes.
ByteLen(s) == ByteOffset(s, Len(s))

is_char_boundary(s, b) == \E i \in 0..Len(s) : ByteOffset(s, i) = b

\* Whether &s[a..b] is a slice Rust can take (it aborts otherwise).
SliceOk(s, a, b) == a <= b /\ is_char_boundary(s, a) /\ is_char_boundary(s, b)

\* &s[a..b], where SliceOk(s, a, b).
Slice(s, a, b) ==
  LET i == CHOOSE k \in 0..Len(s) : ByteOffset(s, k) = a
      j == CHOOSE k \in 0..Len(s) : ByteOffset(s, k) = b
  IN SubSeq(s, i + 1, j)

\* ------------------------------------------------------------- tokens
None == "None"

ClikeTable ==
  ("LeftParen" :> 0) @@ ("RightParen" :> 1) @@ ("LeftBrace" :> 2) @@
    ("RightBrace" :> 3) @@ ("Comma" :> 4) @@ ("Dot" :> 5) @@
    ("Minus" :> 6) @@ ("Plus" :> 7) @@ ("Semicolon" :> 8) @@
    ("Slash" :> 9) @@ ("Star" :> 10) @@ ("Mod" :> 11) @@ ("Bang" :> 12) @@
    ("BangEqual" :> 13) @@ ("Equal" :> 14) @@ ("EqualEqual" :> 15) @@
    ("Greater" :> 16) @@ ("GreaterEqual" :> 17) @@ ("Less" :> 18) @@
    ("LessEqual" :> 19) @@ ("Identifier" :> 20) @@ ("Str" :> 21) @@
    ("Number" :> 22) @@ ("And" :> 23) @@ ("Assert" :> 24) @@
    ("Class" :> 25) @@ ("Else" :> 26) @@ ("False" :> 27) @@
    ("Fun" :> 28) @@ ("For" :> 29) @@ ("If" :> 30) @@ ("Nil" :> 31) @@
    ("Or" :> 32) @@ ("Print" :> 33) @@ ("Return" :> 34) @@
    ("Super" :> 35) @@ ("This" :> 36) @@ ("True" :> 37) @@ ("Var" :> 38) @@
    ("While" :> 39) @@ ("EOF" :> 40)

TokenType == DOMAIN ClikeTable

clike_enum(t) == ClikeTable[t]

RustizeTable ==
  <<"LeftParen", "RightParen", "LeftBrace", "RightBrace", "Comma", "Dot",
    "Minus", "Plus", "Semicolon", "Slash", "Star", "Mod", "Bang",
    "BangEqual", "Equal", "EqualEqual", "Greater", "GreaterEqual", "Less",
    "LessEqual", "Identifier", "Str", "Number", "And", "Assert", "Class",
    "Else", "False", "Fun", "For", "If", "Nil", "Or", "Print", "Return",
    "Super", "This", "True", "Var", "While", "EOF">>

\* rustize with the arms 28 and 29 exchanged.
rustizeSwapped(n) ==
  IF n = 28 THEN "For"
  ELSE IF n = 29 THEN "Fun"
  ELSE IF n \in 0..40 THEN RustizeTable[n + 1] ELSE None

rustize(n) == IF n \in 0..40 THEN RustizeTable[n + 1] ELSE None

\* Step::forward_checked
forward_checked(t, count) == rustize(clike_enum(t) + count)

\* Step::steps_between
steps_between(a, b) ==
  IF clike_enum(a) <= clike_enum(b) THEN clike_enum(b) - clike_enum(a) ELSE None

\* The text Display writes for the reserved words.
DisplayKeyword ==
  ("And" :> <<"a", "n", "d">>) @@
   ("Assert" :> <<"a", "s", "s", "e", "r", "t">>) @@
   ("Class" :> <<"c", "l", "a", "s", "s">>) @@
   ("Else" :> <<"e", "l", "s", "e">>) @@
   ("False" :> <<"f", "a", "l", "s", "e">>) @@
   ("Fun" :> <<"f", "u", "n">>) @@
   ("For" :> <<"f", "o", "r">>) @@
   ("If" :> <<"i", "f">>) @@
   ("Nil" :> <<"n", "i", "l">>) @@
   ("Or" :> <<"o", "r">>) @@
   ("Print" :> <<"p", "r", "i", "n", "t">>) @@
   ("Return" :> <<"r", "e", "t", "u", "r", "n">>) @@
   ("Super" :> <<"s", "u", "p", "e", "r">>) @@
   ("This" :> <<"t", "h", "i", "s">>) @@
   ("True" :> <<"t", "r", "u", "e">>) @@
   ("Var" :> <<"v", "a", "r">>) @@
   ("While" :> <<"w", "h", "i", "l", "e">>)

\* TokenType::keywords
keywords_of(t) ==
  IF t \in {"And", "Assert", "Class", "Else", "False", "For", "Fun", "If",
            "Nil", "Or", "Print", "Return", "Super", "This", "True", "Var",
            "While"}
    THEN DisplayKeyword[t] ELSE None

\* The kinds the half-open range And..While steps through.
KeywordRangeExclusive ==
  {forward_checked("And", k) : k \in 0..(steps_between("And", "While") - 1)}

\* The kinds the range And..=While steps through.
KeywordRange ==
  {forward_checked("And", k) : k \in 0..steps_between("And", "While")}

\* The table Scanner::new builds: the set of (text, kind) entries.
NewKeywords == {<<keywords_of(tt), tt>> : tt \in KeywordRange}

\* Token::new
Token(tt, lexeme) == [token_type |-> tt, lexeme |-> lexeme]

\* --------------------------------------------------------- diagnostics
\* InterpreterError::new().occur(kind): detail is the character or the text.
Occur(kind, detail) == [kind |-> kind, detail |-> detail, had_err |-> TRUE]
NoError == [kind |-> "Unknown", detail |-> <<>>, had_err |-> FALSE]

\* ------------------------------------------------------------- state
VARIABLES
  src,       \* Scanner.src: the source text, a sequence of characters
  keywords,  \* Scanner.keywords: the set of (text, kind) entries
  tokens,    \* Scanner.tokens
  start,     \* Scanner.start
  current,   \* Scanner.current
  line,      \* Scanner.line
  had_err,   \* Scanner.had_err: the most recent error
  pc,        \* where the pass stands: the loop of scan_tokens or a loop below it
  depth,     \* the number of block_comment calls on the call stack
  spans,     \* for each token, the <<start, current>> it was cut with
  stderr     \* what err_report::error has written during the last step

vars ==
  <<src, keywords, tokens, start, current, line, had_err, pc, depth, spans,
    stderr>>

\* Scanner::new
Init ==
  /\ src \in Sources
  /\ keywords = NewKeywords
  /\ tokens = <<>>
  /\ start = 0
  /\ current = 0
  /\ line = 1
  /\ had_err = NoError
  /\ pc = "scan_tokens"
  /\ depth = 0
  /\ spans = <<>>
  /\ stderr = <<>>

\* --------------------------------------------------- cursor primitives
\* peek() with the cursor at character index i.
peek(i) == IF i < Len(src) THEN src[i + 1] ELSE NUL

\* peek2() with the cursor at character index i.
peek2(i) == IF i + 1 < Len(src) THEN src[i + 2] ELSE NUL

\* at_end() with the cursor at i.
at_end(i) == i >= ByteLen(src)

is_digit(c) == CodePoint("0") <= CodePoint(c) /\ CodePoint(c) <= CodePoint("9")

is_alpha(c) ==
  \/ CodePoint("a") <= CodePoint(c) /\ CodePoint(c) <= CodePoint("z")
  \/ CodePoint("A") <= CodePoint(c) /\ CodePoint(c) <= CodePoint("Z")
  \/ c = "_"

is_alphanumeric(c) == is_alpha(c) \/ is_digit(c)

\* ------------------------------------------------------ shared effects
\* err_report::error: every call writes one diagnostic.
Written(e) == <<[line |-> line, err |-> e]>>

\* Scanner::error
error(e) == had_err' = e /\ stderr' = Written(e)

\* A step that moves the cursor to cur and stays inside the scan step.
Goto(p, cur) ==
  /\ pc' = p
  /\ current' = cur
  /\ UNCHANGED <<start, tokens, spans>>

\* scan_token returns with the cursor at cur: this.start = this.current.
Return(cur) ==
  /\ pc' = "scan_tokens"
  /\ current' = cur
  /\ start' = cur
  /\ UNCHANGED <<tokens, spans>>

\* The pass aborts on a slice Rust cannot take.
Panic(cur) ==
  /\ pc' = "panic"
  /\ current' = cur
  /\ UNCHANGED <<start, tokens, spans>>

\* add_token and a return of scan_token after which start is not moved up
\* to current.
add_tokenKeepStart(tt, cur) ==
  IF SliceOk(src, start, cur)
    THEN /\ tokens' = Append(tokens, Token(tt, Slice(src, start, cur)))
         /\ spans' = Append(spans, <<start, cur>>)
         /\ pc' = "scan_tokens"
         /\ current' = cur
         /\ start' = start
    ELSE Panic(cur)

\* Scanner::add_token with the cursor at cur, then the return of scan_token.
add_token(tt, cur) ==
  IF SliceOk(src, start, cur)
    THEN /\ tokens' = Append(tokens, Token(tt, Slice(src, start, cur)))
         /\ spans' = Append(spans, <<start, cur>>)
         /\ pc' = "scan_tokens"
         /\ current' = cur
         /\ start' = cur
    ELSE Panic(cur)

SingleCharKind ==
  ("(" :> "LeftParen") @@ (")" :> "RightParen") @@ ("{" :> "LeftBrace")
    @@ ("}" :> "RightBrace") @@ ("," :> "Comma") @@ ("." :> "Dot")
    @@ ("-" :> "Minus") @@ ("+" :> "Plus") @@ (";" :> "Semicolon")
    @@ ("*" :> "Star") @@ ("%" :> "Mod")

\* For each operator character: <<the kind alone, the kind with '=' after it>>.
OperatorKind ==
  ("!" :> <<"Bang", "BangEqual">>) @@ ("=" :> <<"Equal", "EqualEqual">>)
    @@ ("<" :> <<"Less", "LessEqual">>)
    @@ (">" :> <<"Greater", "GreaterEqual">>)

\* The characters scan_token ignores.
WhitespaceWithoutSpace == {"\r", "\t"}

Whitespace == {" ", "\r", "\t"}

\* ------------------------------------------------------------- actions
\* One call of scan_token, up to the point where it returns or enters a loop.
ScanToken ==
  /\ pc = "scan_tokens"
  /\ ~at_end(current)
  /\ LET c == peek(current)
         cur1 == current + 1
     IN CASE c \in DOMAIN SingleCharKind ->
               /\ add_token(SingleCharKind[c], cur1)
               /\ UNCHANGED <<line, had_err, depth>>
               /\ stderr' = <<>>
          [] c \in DOMAIN OperatorKind ->
               /\ IF peek(cur1) = "="
                    THEN add_token(OperatorKind[c][2], cur1 + 1)
                    ELSE add_token(OperatorKind[c][1], cur1)
               /\ UNCHANGED <<line, had_err, depth>>
               /\ stderr' = <<>>
          [] c = "/" ->
               IF peek(cur1) = "/"
                 THEN /\ Goto("line_comment", cur1 + 1)
                      /\ UNCHANGED <<line, had_err, depth>>
                      /\ stderr' = <<>>
               ELSE IF peek(cur1) = "*"
                 THEN /\ Goto("block_comment", cur1 + 1)
                      /\ depth' = 1
                      /\ UNCHANGED <<line, had_err>>
                      /\ stderr' = <<>>
               ELSE /\ add_token("Slash", cur1)
                    /\ UNCHANGED <<line, had_err, depth>>
                    /\ stderr' = <<>>
          [] c \in Whitespace ->
               /\ Return(cur1)
               /\ UNCHANGED <<line, had_err, depth>>
               /\ stderr' = <<>>
          [] c = "\n" ->
               /\ Return(cur1)
               /\ line' = line + 1
               /\ UNCHANGED <<had_err, depth>>
               /\ stderr' = <<>>
          [] c = "\"" ->
               /\ Goto("string", cur1)
               /\ UNCHANGED <<line, had_err, depth>>
               /\ stderr' = <<>>
          [] OTHER ->
               IF is_digit(c)
                 THEN /\ Goto("number", cur1)
                      /\ UNCHANGED <<line, had_err, depth>>
                      /\ stderr' = <<>>
               ELSE IF is_alpha(c)
                 THEN /\ Goto("identifier", cur1)
                      /\ UNCHANGED <<line, had_err, depth>>
                      /\ stderr' = <<>>
               ELSE /\ error(Occur("UnexpectedCharacter", <<c>>))
                    /\ Return(cur1)
                    /\ UNCHANGED <<line, depth>>
  /\ UNCHANGED <<src, keywords>>

\* One turn of the loop of a line comment, or its exit.
LineComment ==
  /\ pc = "line_comment"
  /\ IF peek(current) # "\n" /\ ~at_end(current)
       THEN Goto("line_comment", current + 1)
       ELSE Return(current)
  /\ UNCHANGED <<src, keywords, line, had_err, depth>>
  /\ stderr' = <<>>

\* string(): the first statement, self.current += 1.
StringEnter ==
  /\ pc = "string"
  /\ Goto("string_loop", current + 1)
  /\ UNCHANGED <<src, keywords, line, had_err, depth>>
  /\ stderr' = <<>>

\* string(): one turn of the loop.
StringLoop ==
  /\ pc = "string_loop"
  /\ ~(peek(current) = "\"" \/ at_end(current))
  /\ line' = IF peek(current) = "\n" THEN line + 1 ELSE line
  /\ Goto("string_loop", current + 1)
  /\ UNCHANGED <<src, keywords, had_err, depth>>
  /\ stderr' = <<>>

\* string() with the quotes cut off the lexeme, as the book does for the
\* literal's value.
StringEndTrimmed ==
  /\ pc = "string_loop"
  /\ peek(current) = "\"" \/ at_end(current)
  /\ IF at_end(current)
       THEN IF SliceOk(src, start, ByteLen(src))
              THEN /\ error(Occur("UnterminatedString",
                                  Slice(src, start, ByteLen(src))))
                   /\ Return(current)
              ELSE /\ Panic(current)
                   /\ UNCHANGED <<had_err>>
                   /\ stderr' = <<>>
       ELSE /\ IF SliceOk(src, start + 1, current)
                 THEN /\ tokens' =
                           Append(tokens,
                                  Token("Str", Slice(src, start + 1, current)))
                      /\ spans' = Append(spans, <<start, current + 1>>)
                      /\ pc' = "scan_tokens"
                      /\ current' = current + 1
                      /\ start' = current + 1
                 ELSE Panic(current + 1)
            /\ UNCHANGED <<had_err>>
            /\ stderr' = <<>>
  /\ UNCHANGED <<src, keywords, line, depth>>

\* string(): after the loop.
StringEnd ==
  /\ pc = "string_loop"
  /\ peek(current) = "\"" \/ at_end(current)
  /\ IF at_end(current)
       THEN IF SliceOk(src, start, ByteLen(src))
              THEN /\ error(Occur("UnterminatedString",
                                  Slice(src, start, ByteLen(src))))
                   /\ Return(current)
              ELSE /\ Panic(current)
                   /\ UNCHANGED <<had_err>>
                   /\ stderr' = <<>>
       ELSE /\ add_token("Str", current + 1)
            /\ UNCHANGED <<had_err>>
            /\ stderr' = <<>>
  /\ UNCHANGED <<src, keywords, line, depth>>

\* number(): the integer part, one turn of the loop or the test that follows.
NumberInt ==
  /\ pc = "number"
  /\ IF is_digit(peek(current))
       THEN Goto("number", current + 1)
     ELSE IF peek(current) = "." /\ is_digit(peek2(current))
       THEN Goto("number_frac", current + 1)
     ELSE add_token("Number", current)
  /\ UNCHANGED <<src, keywords, line, had_err, depth>>
  /\ stderr' = <<>>

\* number(): the fraction, one turn of the loop or the token.
NumberFrac ==
  /\ pc = "number_frac"
  /\ IF is_digit(peek(current))
       THEN Goto("number_frac", current + 1)
       ELSE add_token("Number", current)
  /\ UNCHANGED <<src, keywords, line, had_err, depth>>
  /\ stderr' = <<>>

\* self.keywords.get(txt).unwrap_or(&Identifier)
keyword_or_identifier(txt) ==
  IF \E e \in keywords : e[1] = txt
    THEN (CHOOSE e \in keywords : e[1] = txt)[2]
    ELSE "Identifier"

\* identifier(): one turn of the loop, or the lookup and the token.
IdentifierStep ==
  /\ pc = "identifier"
  /\ IF is_alphanumeric(peek(current))
       THEN Goto("identifier", current + 1)
     ELSE IF SliceOk(src, start, current)
       THEN add_token(keyword_or_identifier(Slice(src, start, current)),
                      current)
     ELSE Panic(current)
  /\ UNCHANGED <<src, keywords, line, had_err, depth>>
  /\ stderr' = <<>>

\* block_comment(): the loop test, !(next_is('*') && next_is('/')), which
\* moves the cursor over what it matches; when both match the call returns,
\* to the loop of the calling block_comment or to scan_token.
BlockCommentTest ==
  /\ pc = "block_comment"
  /\ LET star == peek(current) = "*"
         c1 == IF star THEN current + 1 ELSE current
     IN IF star /\ peek(c1) = "/"
          THEN /\ depth' = depth - 1
               /\ IF depth = 1 THEN Return(c1 + 1)
                               ELSE Goto("block_comment", c1 + 1)
          ELSE /\ Goto("block_comment_body", c1)
               /\ UNCHANGED depth
  /\ UNCHANGED <<src, keywords, line, had_err>>
  /\ stderr' = <<>>

\* block_comment(): the body of the loop, whose tests move the cursor too.
BlockCommentBody ==
  /\ pc = "block_comment_body"
  /\ IF peek(current) = "\n"
       THEN /\ Goto("block_comment", current + 1)
            /\ line' = line + 1
            /\ UNCHANGED <<depth, had_err>>
            /\ stderr' = <<>>
     ELSE LET slash == peek(current) = "/"
              c2 == IF slash THEN current + 1 ELSE current
          IN IF slash /\ peek(c2) = "*"
               THEN /\ Goto("block_comment", c2 + 1)
                    /\ depth' = depth + 1
                    /\ UNCHANGED <<line, had_err>>
                    /\ stderr' = <<>>
             ELSE IF c2 >= ByteLen(src)
               THEN /\ error(Occur("UnterminatedComment", <<>>))
                    /\ Goto("block_comment", c2)
                    /\ UNCHANGED <<line, depth>>
             ELSE /\ Goto("block_comment", c2 + 1)
                  /\ UNCHANGED <<line, depth, had_err>>
                  /\ stderr' = <<>>
  /\ UNCHANGED <<src, keywords>>

\* scan_tokens() returning the tokens as the loop left them.
FinishWithoutEof ==
  /\ pc = "scan_tokens"
  /\ at_end(current)
  /\ pc' = "done"
  /\ UNCHANGED <<src, keywords, tokens, spans, start, current, line, had_err,
                 depth>>
  /\ stderr' = <<>>

\* scan_tokens(): the loop has ended, the EOF token is pushed.
Finish ==
  /\ pc = "scan_tokens"
  /\ at_end(current)
  /\ tokens' = Append(tokens, Token("EOF", <<>>))
  /\ spans' = Append(spans, <<current, current>>)
  /\ pc' = "done"
  /\ UNCHANGED <<src, keywords, start, current, line, had_err, depth>>
  /\ stderr' = <<>>

Next ==
  \/ ScanToken
  \/ LineComment
  \/ StringEnter
  \/ StringLoop
  \/ StringEnd
  \/ NumberInt
  \/ NumberFrac
  \/ IdentifierStep
  \/ BlockCommentTest
  \/ BlockCommentBody
  \/ Finish

Spec == Init /\ [][Next]_vars

\* The pass runs on: a single thread that never waits.
FairSpec == Spec /\ WF_vars(Next)

\* ------------------------------------------------------------- claims
\* The diagnostics of one kind the last step has written.
ReportedOf(kind) == SelectSeq(stderr, LAMBDA r : r.err.kind = kind)

\* Whether every character of s before character index b has one byte.
SingleByteUpTo(s, b) == \A k \in 1..Len(s) : k <= b => len_utf8(s[k]) = 1

\* C1: for every source text the pass ends: the loop of scan_tokens and every
\* loop below it exit after finitely many steps (the pass returns, or aborts).
C1_Terminates == <>(pc \in {"done", "panic"})

\* C2: whenever scan_tokens returns, the last token is EOF with an empty
\* lexeme, no other token has kind EOF, and an empty source returns [EOF].
C2_EndsWithOneEof ==
  pc = "done" =>
    /\ Len(tokens) >= 1
    /\ tokens[Len(tokens)] = Token("EOF", <<>>)
    /\ \A i \in 1..(Len(tokens) - 1) : tokens[i].token_type # "EOF"
    /\ (src = <<>> => tokens = <<Token("EOF", <<>>)>>)

\* A pass has returned with tokens before the EOF token.
C2_Witness == pc = "done" /\ Len(tokens) >= 3 /\ had_err.had_err

\* C3 as stated: the lexeme of a Str token is the text strictly between the
\* opening and the closing quote, neither quote being part of it.
C3_LexemeBetweenQuotes ==
  \A i \in 1..Len(tokens) :
    tokens[i].token_type = "Str" =>
      tokens[i].lexeme = SubSeq(src, spans[i][1] + 2, spans[i][2] - 1)

\* C3 as amended: the lexeme of a Str token is the slice start..current of the
\* source, start being the index at which the opening quote was read and
\* current the index after the one at which the closing quote was read; the
\* quotes are not stripped: when the characters before current are single
\* bytes, the lexeme is the opening quote, the text between and the closing
\* quote.
C3_LexemeKeepsQuotes ==
  \A i \in 1..Len(tokens) :
    tokens[i].token_type = "Str" =>
      LET a == spans[i][1]
          b == spans[i][2]
      IN /\ peek(a) = "\"" /\ peek(b - 1) = "\"" /\ a < b - 1
         /\ tokens[i].lexeme = Slice(src, a, b)
         /\ SingleByteUpTo(src, b) =>
              /\ tokens[i].lexeme = SubSeq(src, a + 1, b)
              /\ Head(tokens[i].lexeme) = "\""
              /\ tokens[i].lexeme[Len(tokens[i].lexeme)] = "\""

\* A Str token of a single-byte source has been emitted after another token.
C3_Witness ==
  \E i \in 2..Len(tokens) :
    /\ tokens[i].token_type = "Str"
    /\ SingleByteUpTo(src, spans[i][2])
    /\ Len(tokens[i].lexeme) >= 3

\* The character index of the first quote after character index a, or -1.
FirstQuoteAfter(a) ==
  IF \E k \in (a + 1)..(Len(src) - 1) : peek(k) = "\""
    THEN CHOOSE k \in (a + 1)..(Len(src) - 1) :
           /\ peek(k) = "\""
           /\ \A m \in (a + 1)..(k - 1) : peek(m) # "\""
    ELSE -1

\* C4: a string literal ends at the first quote that follows its opening
\* quote, whatever lies between (nothing included): the scanner, inside the
\* literal, does not read past that quote, and the Str token spans the opening
\* quote through that quote, where the next scan step starts.
C4_EndsAtFirstQuote ==
  /\ pc \in {"string", "string_loop"} /\ FirstQuoteAfter(start) # -1 =>
       current <= FirstQuoteAfter(start)
  /\ \A i \in 1..Len(tokens) :
       tokens[i].token_type = "Str" =>
         spans[i][2] = FirstQuoteAfter(spans[i][1]) + 1

RECURSIVE CommentClose(_, _, _)
\* Reading s from character index i inside a block comment of depth d, each
\* "/*" adding a level and each "*/" removing one: the index after the "*/"
\* that brings the depth to zero, or -1 when the input ends first.
CommentClose(s, i, d) ==
  IF i + 1 >= Len(s) THEN -1
  ELSE IF s[i + 1] = "*" /\ s[i + 2] = "/"
    THEN IF d = 1 THEN i + 2 ELSE CommentClose(s, i + 2, d - 1)
  ELSE IF s[i + 1] = "/" /\ s[i + 2] = "*"
    THEN CommentClose(s, i + 2, d + 1)
  ELSE CommentClose(s, i + 1, d)

\* C5: a block comment ends exactly at the "*/" that brings the nesting depth
\* back to zero: inside the comment the scanner stays before that point, and
\* it leaves the comment with the cursor right after it and no token emitted.
C5_BlockCommentEnds ==
  /\ []((pc \in {"block_comment", "block_comment_body"}
          /\ CommentClose(src, start + 2, 1) # -1) =>
         current < CommentClose(src, start + 2, 1))
  /\ [][pc = "block_comment" /\ pc' = "scan_tokens" =>
          /\ current' = CommentClose(src, start + 2, 1)
          /\ tokens' = tokens]_vars

\* C6: when the input ends inside a block comment, exactly one
\* UnterminatedComment diagnostic is written and the pass then returns with
\* EOF as the only token after those that preceded the comment.
C6_OneUnterminatedComment ==
  /\ [][had_err.kind = "UnterminatedComment" =>
          ReportedOf("UnterminatedComment")' = <<>>]_vars
  /\ []((pc = "done" /\ had_err.kind = "UnterminatedComment") =>
          tokens[Len(tokens)].token_type = "EOF")

\* C7: a string literal without a closing quote gives exactly one
\* UnterminatedString diagnostic, with the text from the literal's start to
\* the end of input, and no Str token; a literal that has a closing quote gives
\* no UnterminatedString diagnostic.
C7_UnterminatedString ==
  /\ Len(ReportedOf("UnterminatedString")) <= 1
  /\ \A i \in 1..Len(stderr) :
       stderr[i].err.kind = "UnterminatedString" =>
         LET text == stderr[i].err.detail
         IN /\ Len(text) >= 1 /\ Head(text) = "\""
            /\ \A k \in 2..Len(text) : text[k] # "\""
            /\ pc \in {"scan_tokens", "done"}
            /\ at_end(current)

\* Whether a character starts no token, no comment, no literal and is no
\* white space.
StartsNothing(c) ==
  /\ c \notin DOMAIN SingleCharKind
  /\ c \notin DOMAIN OperatorKind
  /\ c \notin {"/", " ", "\r", "\t", "\n", "\""}
  /\ ~is_digit(c)
  /\ ~is_alpha(c)

\* Whether the source has no strings and no comments.
NoStringsNoComments == \A k \in 1..Len(src) : src[k] \notin {"/", "\""}

\* C8: in a source without strings and comments, the scan step at a character
\* that starts no token writes exactly one UnexpectedCharacter diagnostic
\* carrying it, emits no token and resumes at the next character; no other
\* UnexpectedCharacter diagnostic is written and the pass goes on to the end of
\* the source.
C8_OneDiagnosticPerCharacter ==
  /\ [][(NoStringsNoComments /\ pc = "scan_tokens" /\ current < Len(src)
           /\ StartsNothing(src[current + 1])) =>
          /\ stderr' = <<[line |-> line,
                          err |-> Occur("UnexpectedCharacter",
                                        <<src[current + 1]>>)]>>
          /\ tokens' = tokens
          /\ current' = current + 1
          /\ pc' = "scan_tokens"]_vars
  /\ [](NoStringsNoComments =>
          /\ pc # "panic"
          /\ ReportedOf("UnexpectedCharacter") # <<>> =>
               /\ current \in 1..Len(src)
               /\ StartsNothing(src[current])
               /\ stderr = <<[line |-> line,
                              err |-> Occur("UnexpectedCharacter",
                                            <<src[current]>>)]>>)

\* C9: the lexeme of each punctuation, operator, identifier and number token
\* is the sequence of characters the scanner read for it.
C9_LexemeIsWhatWasRead ==
  \A i \in 1..Len(tokens) :
    tokens[i].token_type \notin {"Str", "EOF"} =>
      tokens[i].lexeme = SubSeq(src, spans[i][1] + 1, spans[i][2])

\* Whether text is digits, or digits, one '.', digits.
IsNumberText(text) ==
  /\ Len(text) >= 1
  /\ is_digit(text[1])
  /\ is_digit(text[Len(text)])
  /\ \A k \in 1..Len(text) : is_digit(text[k]) \/ text[k] = "."
  /\ Cardinality({k \in 1..Len(text) : text[k] = "."}) <= 1

\* C10: the lexeme of a Number token is a maximal run of digits, with at most
\* one '.' followed by a maximal run of digits; it never ends in '.'.
C10_NumberLexeme ==
  \A i \in 1..Len(tokens) :
    tokens[i].token_type = "Number" =>
      /\ IsNumberText(tokens[i].lexeme)
      /\ ~is_digit(peek(spans[i][2]))

\* The kind of a word: its reserved word's kind, or Identifier.
KindOfWord(word) ==
  IF \E k \in DOMAIN DisplayKeyword : DisplayKeyword[k] = word
    THEN CHOOSE k \in DOMAIN DisplayKeyword : DisplayKeyword[k] = word
    ELSE "Identifier"

\* C11: identifier scanning consumes the maximal run of letters, digits and
\* underscores and emits exactly one token for the whole run, of a keyword
\* kind if and only if the whole run is a reserved word, else Identifier.
C11_OneTokenPerWord ==
  [][pc = "identifier" /\ pc' # "identifier" =>
       LET run == SubSeq(src, start + 1, current)
       IN /\ \A k \in 1..Len(run) : is_alphanumeric(run[k])
          /\ ~is_alphanumeric(peek(current))
          /\ tokens' = Append(tokens, Token(KindOfWord(run), run))]_vars

\* The kind the operator character c gives, alone or with '=' after it.
OperatorToken(c, withEqual) ==
  CASE c = "!" -> IF withEqual THEN "BangEqual" ELSE "Bang"
    [] c = "=" -> IF withEqual THEN "EqualEqual" ELSE "Equal"
    [] c = "<" -> IF withEqual THEN "LessEqual" ELSE "Less"
    [] c = ">" -> IF withEqual THEN "GreaterEqual" ELSE "Greater"

\* C12: for each of ! = < >, when the next character is '=' one two-character
\* token is emitted and both characters are consumed; otherwise the
\* one-character token is emitted and the next character is not consumed.
C12_OperatorTokens ==
  [][(/\ pc = "scan_tokens"
      /\ ~at_end(current)
      /\ peek(current) \in {"!", "=", "<", ">"}) =>
       LET c == peek(current)
       IN IF peek(current + 1) = "="
            THEN /\ tokens' = Append(tokens, Token(OperatorToken(c, TRUE),
                                                   <<c, "=">>))
                 /\ current' = current + 2
            ELSE /\ tokens' = Append(tokens, Token(OperatorToken(c, FALSE),
                                                   <<c>>))
                 /\ current' = current + 1]_vars

\* The character index of the first newline at or after index i, or -1.
NewlineFrom(i) ==
  IF \E k \in i..(Len(src) - 1) : peek(k) = "\n"
    THEN CHOOSE k \in i..(Len(src) - 1) :
           peek(k) = "\n" /\ \A m \in i..(k - 1) : peek(m) # "\n"
    ELSE -1

\* Whether the k-th character of a source without quotes and '*' lies in the
\* text of a line comment: "//" stands before it on its line.
InLineComment(k) ==
  \E j \in 1..(k - 2) :
    /\ src[j] = "/" /\ src[j + 1] = "/"
    /\ \A m \in j..k : src[m] # "\n"

\* Sources whose only constructs are line comments and plain tokens, every
\* multi-byte character being in the text of a line comment.
OnlyLineComments ==
  \A k \in 1..Len(src) :
    /\ src[k] \notin {"\"", "*"}
    /\ len_utf8(src[k]) > 1 => InLineComment(k)

\* C13: a line comment emits no token and consumes the characters up to, not
\* including, the next newline (to the end of input when there is none); the
\* tokens before and after it are those of the source without the comment
\* text, and the newline that ends it is counted.
C13_LineComment ==
  /\ [][pc = "line_comment" /\ pc' = "scan_tokens" =>
          /\ tokens' = tokens
          /\ line' = line
          /\ IF NewlineFrom(start + 2) # -1
               THEN current' = NewlineFrom(start + 2)
               ELSE current' >= Len(src)]_vars
  /\ [](OnlyLineComments =>
          /\ pc # "panic"
          /\ \A i \in 1..Len(tokens) :
               tokens[i].token_type # "EOF" =>
                 tokens[i].lexeme = SubSeq(src, spans[i][1] + 1, spans[i][2])
          /\ \A i \in 1..Len(stderr) : stderr[i].err.detail # <<NUL>>
          /\ pc = "done" =>
               line = 1 + Cardinality({k \in 1..Len(src) : src[k] = "\n"}))

\* C14: tokens are emitted in source order: the spans of successive tokens
\* before EOF are not empty, do not overlap and start further and further on,
\* and a token once appended is never removed or changed.
C14_SourceOrder ==
  /\ [](\A i \in 1..Len(tokens) :
          tokens[i].token_type # "EOF" =>
            /\ spans[i][1] < spans[i][2]
            /\ i > 1 => spans[i - 1][2] <= spans[i][1])
  /\ [][/\ Len(tokens') >= Len(tokens)
        /\ SubSeq(tokens', 1, Len(tokens)) = tokens]_vars

\* A pass has returned three tokens or more before EOF.
C14_Witness ==
  /\ pc = "done"
  /\ Len(tokens) >= 4
  /\ spans[1][2] < spans[2][1]
  /\ spans[2][2] = spans[3][1]

\* C15: a scan step that consumes a space, a carriage return or a tab moves
\* current on by exactly one and leaves the tokens, the line counter and the
\* error record as they are; a source of such characters only returns [EOF].
C15_WhitespaceIgnored ==
  /\ [][(pc = "scan_tokens" /\ peek(current) \in {" ", "\r", "\t"}) =>
          /\ current' = current + 1
          /\ pc' = "scan_tokens"
          /\ tokens' = tokens
          /\ line' = line
          /\ had_err' = had_err
          /\ stderr' = <<>>]_vars
  /\ []((pc = "done" /\ \A k \in 1..Len(src) : src[k] \in {" ", "\r", "\t"})
          => tokens = <<Token("EOF", <<>>)>>)

\* A pass over a space, a carriage return and a tab has returned.
C15_Witness ==
  /\ pc = "done"
  /\ Len(src) >= 3
  /\ \A c \in {" ", "\r", "\t"} : \E k \in 1..Len(src) : src[k] = c
  /\ \A k \in 1..Len(src) : src[k] \in {" ", "\r", "\t"}
  /\ tokens = <<Token("EOF", <<>>)>>

\* The number of newline characters among the first n characters of src.
NewlinesBefore(n) == Cardinality({k \in 1..Len(src) : k <= n /\ src[k] = "\n"})

\* C16: the line counter starts at 1, never decreases and is incremented
\* exactly once for each newline consumed, wherever it stands; after a pass
\* over the whole source it is 1 plus the number of newlines of the source.
C16_LineCounter ==
  /\ [](line = 1 + NewlinesBefore(current))
  /\ [](pc = "done" => line = 1 + NewlinesBefore(Len(src)))
  /\ [][line' >= line]_vars

\* C17: in every state of a pass, 0 <= start <= current <= the length of the
\* source (src.len()): no operation moves current past the end of the source.
C17_CursorInBounds ==
  /\ 0 <= start
  /\ start <= current
  /\ current <= ByteLen(src)

\* The reserved words with their kinds, And through While.
ReservedWords ==
  {<<<<"a", "n", "d">>, "And">>,
   <<<<"a", "s", "s", "e", "r", "t">>, "Assert">>,
   <<<<"c", "l", "a", "s", "s">>, "Class">>,
   <<<<"e", "l", "s", "e">>, "Else">>,
   <<<<"f", "a", "l", "s", "e">>, "False">>,
   <<<<"f", "u", "n">>, "Fun">>,
   <<<<"f", "o", "r">>, "For">>,
   <<<<"i", "f">>, "If">>,
   <<<<"n", "i", "l">>, "Nil">>,
   <<<<"o", "r">>, "Or">>,
   <<<<"p", "r", "i", "n", "t">>, "Print">>,
   <<<<"r", "e", "t", "u", "r", "n">>, "Return">>,
   <<<<"s", "u", "p", "e", "r">>, "Super">>,
   <<<<"t", "h", "i", "s">>, "This">>,
   <<<<"t", "r", "u", "e">>, "True">>,
   <<<<"v", "a", "r">>, "Var">>,
   <<<<"w", "h", "i", "l", "e">>, "While">>}

\* C18: after Scanner::new the keyword table has exactly one entry for each
\* reserved-word kind from And through While (Assert included), keyed by the
\* word's text and mapped to its own kind, and no other entry; no scan step
\* changes it.
C18_KeywordTable ==
  /\ keywords = ReservedWords
  /\ Cardinality(keywords) = 17
  /\ \A e1, e2 \in keywords : e1[1] = e2[1] \/ e1[2] = e2[2] => e1 = e2

\* A pass that looked a reserved word up in the table has returned.
C18_Witness ==
  /\ pc = "done"
  /\ \E i \in 1..Len(tokens) : tokens[i].token_type = "Or"
  /\ \E i \in 1..Len(tokens) : tokens[i].token_type = "Identifier"

\* C19: for every source text, multi-byte characters included, scan_tokens
\* never aborts on taking a slice of the source: every slice taken by
\* add_token, identifier and string lies within the source with both bounds on
\* character boundaries.
C19_NoSliceAbort == pc # "panic"

\* The kinds in the order enum TokenType declares them.
Declared ==
  <<"LeftParen", "RightParen", "LeftBrace", "RightBrace", "Comma", "Dot",
    "Minus", "Plus", "Semicolon", "Slash", "Star", "Mod",
    "Bang", "BangEqual", "Equal", "EqualEqual", "Greater", "GreaterEqual",
    "Less", "LessEqual",
    "Identifier", "Str", "Number",
    "And", "Assert", "Class", "Else", "False", "Fun", "For", "If", "Nil",
    "Or", "Print", "Return", "Super", "This", "True", "Var", "While",
    "EOF">>

\* The kinds keywords() has a text for.
KeywordKinds == {t \in TokenType : keywords_of(t) # None}

\* clike_enum and rustize undo each other and clike_enum follows the
\* declaration order.
MutuallyInverse ==
  /\ {Declared[i] : i \in 1..Len(Declared)} = TokenType
  /\ \A t \in TokenType : rustize(clike_enum(t)) = t
  /\ \A n \in 0..40 : rustize(n) \in TokenType /\ clike_enum(rustize(n)) = n
  /\ \A n \in 41..MaxOrdinal : rustize(n) = None
  /\ \A i, j \in 1..Len(Declared) :
       i < j => clike_enum(Declared[i]) < clike_enum(Declared[j])
  /\ \A a, b \in TokenType :
       IF clike_enum(a) <= clike_enum(b)
         THEN forward_checked(a, steps_between(a, b)) = b
         ELSE steps_between(a, b) = None

\* C20: clike_enum and rustize are mutually inverse over the whole TokenType
\* set (rustize(clike_enum(t)) = t, clike_enum(rustize(n)) = n for n in 0..=40,
\* rustize(n) = None above 40), clike_enum is strictly increasing in the
\* declaration order, and so the range And..=While that Scanner::new walks is
\* exactly the keyword kinds.
C20_OrdinalsInverse ==
  /\ MutuallyInverse
  /\ KeywordRange = KeywordKinds
  /\ {e[2] : e \in keywords} = KeywordKinds
  /\ \A e \in keywords : e[1] = keywords_of(e[2])

\* Scanner::new has walked the range from And to While and no step was taken.
C20_Witness ==
  /\ pc = "scan_tokens" /\ current = 0 /\ tokens = <<>> /\ Len(src) = MaxLen
  /\ \E e \in keywords : e[2] = "And"
  /\ \E e \in keywords : e[2] = "While"
  /\ Cardinality(keywords) = steps_between("And", "While") + 1

====
